---------------------------- MODULE Spec2Model ----------------------------
(***************************************************************************)
(* Model of simulate_battle.py: the state file (battle_state.txt) as the   *)
(* text the program writes and parses, one battle step per invocation, and *)
(* the rendered output file (battle_map.txt).                              *)
(*                                                                         *)
(* Text is a sequence of one-character strings; a literal of the program   *)
(* that is only written, never parsed, is kept whole as one element.       *)
(* The state file is the sequence of its lines as readlines() returns      *)
(* them, each with its newline.                                            *)
(* A Python list is a sequence; Python index i is TLA+ index i + 1.        *)
(* A Python dict is a function whose DOMAIN is the set of its keys.        *)
(***************************************************************************)
EXTENDS Integers, Sequences, FiniteSets, TLC

VARIABLES
    state_file,   \* battle_state.txt: [exists |-> BOOLEAN, data |-> lines]
    output_file,  \* battle_map.txt: [exists |-> BOOLEAN, data |-> text]
    wins,         \* the wins dict last loaded, saved or left by an invocation
    board,        \* the board last loaded, saved or left by an invocation
    row_index,    \* random.randint(0, BOARD_ROWS - 1) of the last invocation
    dice,         \* the coin of the last invocation: "lt_half", "ge_half", "none"
    outcome,      \* what the last operation did
    days_seen,    \* history: the values of the day counter in the states saved so far
    proc          \* concurrent invocations: the position and the locals of each

vars == <<state_file, output_file, wins, board, row_index, dice, outcome,
          days_seen, proc>>

---------------------------------------------------------------------------
(* Program constants *)

BOARD_ROWS == 6

BOARD_COLS == 5

\* Bounds of the model.
MaxDays == 3

MaxWins == 1

MaxCount == 10

---------------------------------------------------------------------------
(* Text helpers: what str(), int(), str.split() and readlines() compute *)

Digits == <<"0", "1", "2", "3", "4", "5", "6", "7", "8", "9">>

DigitSet == {Digits[d] : d \in 1..10}

IsDigit(c) == c \in DigitSet

\* the value of each digit
DigitTable == [c \in DigitSet |-> (CHOOSE d \in 1..10 : Digits[d] = c) - 1]

DigitVal(c) == DigitTable[c]

RECURSIVE NatToStr_reversed(_)
\* mutant: the digits least significant first
NatToStr_reversed(n) ==
    IF n < 10 THEN <<Digits[n + 1]>>
    ELSE <<Digits[(n % 10) + 1]>> \o NatToStr_reversed(n \div 10)

RECURSIVE NatToStr(_)
\* the decimal digits of n >= 0, most significant first
NatToStr(n) ==
    IF n < 10 THEN <<Digits[n + 1]>>
    ELSE NatToStr(n \div 10) \o <<Digits[(n % 10) + 1]>>

\* f"{n}" for an int n
IntToStr(n) == IF n < 0 THEN <<"-">> \o NatToStr(-n) ELSE NatToStr(n)

RECURSIVE DigitsToNat(_, _)
\* value of a sequence of digits, accumulated left to right from acc
DigitsToNat(s, acc) ==
    IF s = <<>> THEN acc
    ELSE DigitsToNat(SubSeq(s, 2, Len(s)), 10 * acc + DigitVal(s[1]))

\* int() accepts digits with single underscores between them
IsNumeral(s) ==
    /\ Len(s) >= 1
    /\ IsDigit(s[1])
    /\ IsDigit(s[Len(s)])
    /\ \A i \in 1..Len(s) : IsDigit(s[i]) \/ s[i] = "_"
    /\ \A i \in 1..(Len(s) - 1) : ~(s[i] = "_" /\ s[i + 1] = "_")

\* int(s) for a token s without whitespace: [ok |-> FALSE] is ValueError
StrToInt(s) ==
    LET signed == Len(s) >= 1 /\ s[1] \in {"-", "+"}
        body   == IF signed THEN SubSeq(s, 2, Len(s)) ELSE s
    IN  IF IsNumeral(body)
        THEN LET n == DigitsToNat(SelectSeq(body, IsDigit), 0)
             IN  [ok |-> TRUE, val |-> IF signed /\ s[1] = "-" THEN -n ELSE n]
        ELSE [ok |-> FALSE, val |-> 0]

RECURSIVE FirstIndex(_, _, _)
\* s.find(sep) from position i on (1-based), 0 when there is none
FirstIndex(s, sep, i) ==
    IF i > Len(s) THEN 0
    ELSE IF s[i] = sep THEN i
    ELSE FirstIndex(s, sep, i + 1)

RECURSIVE SplitOn(_, _)
\* s.split(sep) for a one-character sep: the pieces between separators, empty ones kept
SplitOn(s, sep) ==
    LET i == FirstIndex(s, sep, 1)
    IN  IF i = 0 THEN <<s>>
        ELSE <<SubSeq(s, 1, i - 1)>> \o SplitOn(SubSeq(s, i + 1, Len(s)), sep)

NonEmpty(p) == p # <<>>

\* s.split(): the maximal runs of non-blank characters
SplitWhitespace(s) == SelectSeq(SplitOn(s, " "), NonEmpty)

RECURSIVE RStripNewlines(_)
\* line.rstrip('\n')
RStripNewlines(line) ==
    IF line # <<>> /\ line[Len(line)] = "\n"
    THEN RStripNewlines(SubSeq(line, 1, Len(line) - 1))
    ELSE line

\* [line.rstrip('\n') for line in f.readlines()], on the lines readlines() returns
ReadLines(data) == [i \in 1..Len(data) |-> RStripNewlines(data[i])]

\* a literal of the program's text, kept as one element of the text
T(literal) == <<literal>>

\* [c] * n, for the n <= 8 the program uses
Repeat(c, n) == SubSeq(<<c, c, c, c, c, c, c, c>>, 1, n)

---------------------------------------------------------------------------
(* Keys of the wins dict *)

\* the first word of the counters line
WINS == <<"W", "I", "N", "S">>

KEY_A == <<"A">>

KEY_B == <<"B">>

KEY_DAYS == <<"D", "A", "Y", "S">>

KEY_RECORD == <<"R", "E", "C", "O", "R", "D">>

CounterKeys == {KEY_A, KEY_B, KEY_DAYS, KEY_RECORD}

\* d[k] = v on a dict
Put(d, k, v) == (k :> v) @@ d

EmptyDict == [x \in {} |-> 0]

---------------------------------------------------------------------------
(* State store *)

\* mutant: the two halves of the board swapped
create_initial_board_swapped ==
    [r1 \in 1..BOARD_ROWS |->
        IF (r1 - 1) < BOARD_ROWS \div 2
        THEN Repeat("A", BOARD_COLS - 3) \o Repeat("B", 3)
        ELSE Repeat("A", 3) \o Repeat("B", BOARD_COLS - 3)]

create_initial_board ==
    [r1 \in 1..BOARD_ROWS |->
        IF (r1 - 1) < BOARD_ROWS \div 2
        THEN Repeat("A", 3) \o Repeat("B", BOARD_COLS - 3)
        ELSE Repeat("A", BOARD_COLS - 3) \o Repeat("B", 3)]

default_wins ==
    [k \in CounterKeys |-> 0]

default_state == [wins |-> default_wins, board |-> create_initial_board]

RECURSIVE ParseWins(_, _)
\* the loop over parts[1:]: [ok |-> FALSE] when a token raises
ParseWins(parts, acc) ==
    IF parts = <<>> THEN [ok |-> TRUE, wins |-> acc]
    ELSE LET kv == SplitOn(parts[1], ":")
         IN  IF Len(kv) # 2 THEN [ok |-> FALSE, wins |-> acc]
             ELSE LET n == StrToInt(kv[2])
                  IN  IF ~n.ok THEN [ok |-> FALSE, wins |-> acc]
                      ELSE ParseWins(SubSeq(parts, 2, Len(parts)),
                                     Put(acc, kv[1], n.val))

EnsureKey(d, k) == IF k \in DOMAIN d THEN d ELSE Put(d, k, 0)

load_state(f) ==
    IF ~f.exists THEN default_state
    ELSE LET lines == ReadLines(f.data)
         IN  IF Len(lines) < 1 + BOARD_ROWS THEN default_state
             ELSE LET parts  == SplitWhitespace(lines[1])
                      parsed == ParseWins(SubSeq(parts, 2, Len(parts)), EmptyDict)
                      board_lines == SubSeq(lines, 2, 1 + BOARD_ROWS)
                  IN  IF ~parsed.ok THEN default_state
                      ELSE IF \E i \in 1..BOARD_ROWS : Len(board_lines[i]) # BOARD_COLS
                      THEN default_state
                      ELSE [wins  |-> EnsureKey(EnsureKey(parsed.wins, KEY_DAYS), KEY_RECORD),
                            board |-> board_lines]

\* the lines save_state writes (all four keys are read: a missing one is KeyError)
save_state(w, b) ==
    [exists |-> TRUE,
     data   |-> << WINS \o <<" ">>
                   \o KEY_A \o <<":">> \o IntToStr(w[KEY_A]) \o <<" ">>
                   \o KEY_B \o <<":">> \o IntToStr(w[KEY_B]) \o <<" ">>
                   \o KEY_DAYS \o <<":">> \o IntToStr(w[KEY_DAYS]) \o <<" ">>
                   \o KEY_RECORD \o <<":">> \o IntToStr(w[KEY_RECORD]) \o <<"\n">> >>
                \o [i \in 1..Len(b) |-> b[i] \o <<"\n">>]]

NoFile == [exists |-> FALSE, data |-> <<>>]

---------------------------------------------------------------------------
(* Renderer *)

RECURSIVE Join(_, _)
\* sep.join(parts)
Join(parts, sep) ==
    IF parts = <<>> THEN <<>>
    ELSE IF Len(parts) = 1 THEN parts[1]
    ELSE parts[1] \o sep \o Join(SubSeq(parts, 2, Len(parts)), sep)

cell_width == 5

\* cell.center(cell_width) for a one-character cell: two blanks on each side
Center(cell) == T("  ") \o <<cell>> \o T("  ")

\* "-" * cell_width (the box-drawing characters are written in ASCII)
HBar == T("-----")

\* one border line: l + m.join(HBar for each column) + r
Border(l, m, r, num_cols) ==
    <<l>> \o Join([i \in 1..num_cols |-> HBar], <<m>>) \o <<r>>

\* the borders for num_cols = BOARD_COLS: every board the program renders comes
\* from create_initial_board or passed the width check of load_state
top_border == Border(".", "+", ".", BOARD_COLS)

middle_border == Border("+", "+", "+", BOARD_COLS)

bottom_border == Border("'", "+", "'", BOARD_COLS)

\* one row of the table: the centred cells between vertical bars
row_line(row) ==
    <<"|">> \o Join([j \in 1..Len(row) |-> Center(row[j])], <<"|">>) \o <<"|">>

\* the text of generate_ascii_board; it reads all four counters
generate_ascii_board(b, w) ==
    LET header == T("Wins - A: ") \o IntToStr(w[KEY_A]) \o T(" | B: ")
                  \o IntToStr(w[KEY_B]) \o T("\nDays: ")
                  \o IntToStr(w[KEY_DAYS]) \o T("   Record: ")
                  \o IntToStr(w[KEY_RECORD]) \o T("\n\n")
        \* each row line, followed by middle_border except after the last row
        table == [k \in 1..(2 * Len(b) - 1) |->
                     IF k % 2 = 1 THEN row_line(b[(k + 1) \div 2]) ELSE middle_border]
    IN  Join(<<header, top_border>> \o table \o <<bottom_border>>, <<"\n">>)

\* generate_ascii_board and save_state raise KeyError unless all four keys exist
HasCounters(w) == CounterKeys \subseteq DOMAIN w

---------------------------------------------------------------------------
(* Battle step *)

\* mutant: uniform only when every cell is A
is_row_uniform_all_A(row) == \A i \in 1..Len(row) : row[i] = "A"

\* True if all cells in the row are identical
is_row_uniform(row) == \A i \in 1..Len(row) : row[i] = row[1]

\* max(i for i, cell in enumerate(row) if cell == 'A'), -1 on ValueError
Boundary(row) ==
    LET idx == {i \in 0..(Len(row) - 1) : row[i + 1] = "A"}
    IN  IF idx = {} THEN -1 ELSE CHOOSE i \in idx : \A j \in idx : j <= i

IsWin(boundary) == boundary = BOARD_COLS - 1 \/ boundary = -1

\* mutant: the factions swapped
Winner_swapped(boundary) == IF boundary = BOARD_COLS - 1 THEN KEY_B ELSE KEY_A

Winner(boundary) == IF boundary = BOARD_COLS - 1 THEN KEY_A ELSE KEY_B

\* mutant: the coin read the other way round
MoveBoundary_flipped(boundary, coin) ==
    IF coin = "lt_half" THEN boundary - 1 ELSE boundary + 1

\* new_boundary before the clamp
MoveBoundary(boundary, coin) ==
    IF coin = "lt_half" THEN boundary + 1 ELSE boundary - 1

Max(a, b) == IF a >= b THEN a ELSE b

Min(a, b) == IF a <= b THEN a ELSE b

\* mutant: clamped one cell short of each edge
Clamp_inner(new_boundary) == Min(Max(new_boundary, 0), BOARD_COLS - 2)

Clamp(new_boundary) == Min(Max(new_boundary, -1), BOARD_COLS - 1)

\* mutant: the comparison turned round, 'A' if i >= new_boundary
RewriteRow_flipped(new_boundary) ==
    [i1 \in 1..BOARD_COLS |-> IF (i1 - 1) >= new_boundary THEN "A" ELSE "B"]

\* the row rewritten: 'A' if i <= new_boundary else 'B'
RewriteRow(new_boundary) ==
    [i1 \in 1..BOARD_COLS |-> IF (i1 - 1) <= new_boundary THEN "A" ELSE "B"]

\* mutant: the win branch without the reset of the day counter
WinBranch_keeps_days(w, b, r, boundary) ==
    LET w1 == [w EXCEPT ![Winner(boundary)] = @ + 1]
        b1 == create_initial_board
    IN  [raised |-> FALSE, kind |-> "win", coin |-> "none", wins |-> w1, board |-> b1,
         ascii_output |->
             T("Faction ") \o Winner(boundary) \o T(" wins on row ") \o IntToStr(r + 1)
             \o T("!") \o T("\n\nFinal board state:\n") \o generate_ascii_board(b, w)
             \o T("\n\nBoard reset to initial state:\n") \o generate_ascii_board(b1, w1)]

\* mutant: the tally of the winner counted down
WinBranch_decrements(w, b, r, boundary) ==
    LET winner == Winner(boundary)
        w1 == [w EXCEPT ![winner] = @ - 1, ![KEY_DAYS] = 0]
        b1 == create_initial_board
    IN  [raised |-> FALSE, kind |-> "win", coin |-> "none", wins |-> w1, board |-> b1,
         ascii_output |->
             T("Faction ") \o winner \o T(" wins on row ") \o IntToStr(r + 1) \o T("!")
             \o T("\n\nFinal board state:\n") \o generate_ascii_board(b, w)
             \o T("\n\nBoard reset to initial state:\n") \o generate_ascii_board(b1, w1)]

\* mutant: the record reset with the day counter
WinBranch_resets_record(w, b, r, boundary) ==
    LET winner == Winner(boundary)
        w1 == [w EXCEPT ![winner] = @ + 1, ![KEY_DAYS] = 0, ![KEY_RECORD] = 0]
        b1 == create_initial_board
    IN  [raised |-> FALSE, kind |-> "win", coin |-> "none", wins |-> w1, board |-> b1,
         ascii_output |->
             T("Faction ") \o winner \o T(" wins on row ") \o IntToStr(r + 1) \o T("!")
             \o T("\n\nFinal board state:\n") \o generate_ascii_board(b, w)
             \o T("\n\nBoard reset to initial state:\n") \o generate_ascii_board(b1, w1)]

\* the win branch: tally, day reset, board reset, message
WinBranch(w, b, r, boundary) ==
    LET winner == Winner(boundary)
        w1 == [w EXCEPT ![winner] = @ + 1, ![KEY_DAYS] = 0]
        b1 == create_initial_board
    IN  [raised |-> FALSE, kind |-> "win", coin |-> "none", wins |-> w1, board |-> b1,
         ascii_output |->
             T("Faction ") \o winner \o T(" wins on row ") \o IntToStr(r + 1) \o T("!")
             \o T("\n\nFinal board state:\n") \o generate_ascii_board(b, w)
             \o T("\n\nBoard reset to initial state:\n") \o generate_ascii_board(b1, w1)]

\* mutant: the day counter without the update of the record
CountDay_no_record(w) == [w EXCEPT ![KEY_DAYS] = @ + 1]

\* the counters after a non-win step: day counter, then record
CountDay(w) ==
    LET w1 == [w EXCEPT ![KEY_DAYS] = @ + 1]
    IN  IF w1[KEY_DAYS] > w1[KEY_RECORD] THEN [w1 EXCEPT ![KEY_RECORD] = w1[KEY_DAYS]] ELSE w1

\* mutant: the board rendered before the row is rewritten
MoveBranch_renders_loaded(w, b, r, boundary, coin) ==
    LET w1 == CountDay(w)
        b1 == [b EXCEPT ![r + 1] = RewriteRow(Clamp(MoveBoundary(boundary, coin)))]
    IN  [raised |-> FALSE, kind |-> "move", coin |-> coin, wins |-> w1, board |-> b1,
         ascii_output |-> generate_ascii_board(b, w1)]

\* mutant: a move that makes the row uniform also counts the win
MoveBranch_counts_win(w, b, r, boundary, coin) ==
    LET new_boundary == Clamp(MoveBoundary(boundary, coin))
        w0 == CountDay(w)
        w1 == IF IsWin(new_boundary) THEN [w0 EXCEPT ![Winner(new_boundary)] = @ + 1]
              ELSE w0
        b1 == [b EXCEPT ![r + 1] = RewriteRow(new_boundary)]
    IN  [raised |-> FALSE, kind |-> "move", coin |-> coin, wins |-> w1, board |-> b1,
         ascii_output |-> generate_ascii_board(b1, w1)]

\* the move branch: day counter, record, coin, clamp, row rewrite
MoveBranch(w, b, r, boundary, coin) ==
    LET w1 == CountDay(w)
        b1 == [b EXCEPT ![r + 1] = RewriteRow(Clamp(MoveBoundary(boundary, coin)))]
    IN  [raised |-> FALSE, kind |-> "move", coin |-> coin, wins |-> w1, board |-> b1,
         ascii_output |-> generate_ascii_board(b1, w1)]

\* simulate_battle between load_state and the two file writes, for row r and a coin;
\* raised: a KeyError left the function before anything was written
simulate_battle(st, r, coin) ==
    LET boundary == Boundary(st.board[r + 1])
    IN  IF ~HasCounters(st.wins)
        THEN [raised |-> TRUE, kind |-> "raised", coin |-> "none", wins |-> st.wins,
              board |-> st.board, ascii_output |-> <<>>]
        ELSE IF IsWin(boundary) THEN WinBranch(st.wins, st.board, r, boundary)
        ELSE MoveBranch(st.wins, st.board, r, boundary, coin)

Rows == 0..(BOARD_ROWS - 1)

Coins == {"lt_half", "ge_half"}

\* the counters stay within the bounds of the model
WithinBounds(res) ==
    IF res.raised THEN TRUE
    ELSE /\ res.wins[KEY_DAYS] <= MaxDays
         /\ res.wins[KEY_A] + res.wins[KEY_B] <= MaxWins

\* the rest of one run of the program once st is loaded: the step on row r with
\* the coin, save_state, and the write of the output file
Run(st, r, coin) ==
    \E res \in {simulate_battle(st, r, coin)} :
        /\ WithinBounds(res)
        /\ row_index' = r
        /\ dice' = res.coin
        /\ outcome' = res.kind
        /\ wins' = res.wins
        /\ board' = res.board
        /\ state_file' = IF res.raised THEN state_file ELSE save_state(res.wins, res.board)
        /\ output_file' = IF res.raised THEN output_file
                          ELSE [exists |-> TRUE, data |-> res.ascii_output]
        /\ days_seen' = IF res.raised THEN days_seen
                        ELSE days_seen \cup {res.wins[KEY_DAYS]}
        /\ UNCHANGED proc

\* one run of the program: load_state, then the step for some row and coin
Invocation ==
    \E st \in {load_state(state_file)} :
        \E r \in Rows, coin \in Coins : Run(st, r, coin)

NoOutput == [exists |-> FALSE, data |-> <<>>]

\* no concurrent invocations
NoProcs == <<>>

Init ==
    /\ state_file = NoFile
    /\ output_file = NoOutput
    /\ wins = default_wins
    /\ board = create_initial_board
    /\ row_index = 0
    /\ dice = "none"
    /\ outcome = "init"
    /\ days_seen = {0}
    /\ proc = NoProcs

Next == Invocation

Spec == Init /\ [][Next]_vars

---------------------------------------------------------------------------
(* The state store on its own: save_state and load_state applied to inputs *)

\* save_state(wins, board) on the inputs drawn by the initial state
SaveAct ==
    /\ outcome = "init"
    /\ state_file' = save_state(wins, board)
    /\ outcome' = "saved"
    /\ UNCHANGED <<output_file, wins, board, row_index, dice, days_seen, proc>>

\* wins, board = load_state()
LoadAct ==
    /\ outcome \in {"init", "saved"}
    /\ \E st \in {load_state(state_file)} :
           /\ wins' = st.wins
           /\ board' = st.board
    /\ outcome' = IF outcome = "saved" THEN "reloaded" ELSE "loaded"
    /\ UNCHANGED <<state_file, output_file, row_index, dice, days_seen, proc>>

\* every row of cells in {A, B}
AllRows == [1..BOARD_COLS -> {"A", "B"}]

\* boards of cells in {A, B}: the default board with one row replaced
SampleBoards ==
    {[create_initial_board EXCEPT ![i] = row] : i \in 1..BOARD_ROWS, row \in AllRows}

\* counter values that cover 0, the last value before a new digit, and the bound
CountVals == {0, MaxCount - 1, MaxCount}

SampleWins == [CounterKeys -> CountVals]

InitStore ==
    /\ state_file = NoFile
    /\ output_file = NoOutput
    /\ wins \in SampleWins
    /\ board \in SampleBoards
    /\ row_index = 0
    /\ dice = "none"
    /\ outcome = "init"
    /\ days_seen = {0}
    /\ proc = NoProcs

NextStore == SaveAct \/ LoadAct

SpecStore == InitStore /\ [][NextStore]_vars

---------------------------------------------------------------------------
(* State files that the program did not write *)

\* a file of the given lines, each ended by a newline
TextFile(lines) ==
    [exists |-> TRUE, data |-> [i \in 1..Len(lines) |-> lines[i] \o <<"\n">>]]

Token(k, v) == k \o <<":">> \o v

\* what a counters line may hold for key k: a well-formed token, no token, or a
\* token that int() or the unpacking of split(':') rejects
TokenVariants(k) ==
    { <<Token(k, <<"1">>)>>,
      <<>>,
      <<Token(k, <<"x">>)>>,
      <<Token(k, <<>>)>>,
      <<k>>,
      <<Token(k, <<"1", ":", "2">>)>> }

WellFormedTokens ==
    [k \in CounterKeys |->
        <<Token(k, IF k = KEY_DAYS THEN <<"1">>
                   ELSE IF k = KEY_RECORD THEN <<"2">> ELSE <<"0">>)>>]

CounterLineOf(tok) ==
    Join(<<WINS>> \o tok[KEY_A] \o tok[KEY_B] \o tok[KEY_DAYS] \o tok[KEY_RECORD],
         <<" ">>)

\* counters lines with at most one key off the well-formed line, and an empty line
CounterLines ==
    {CounterLineOf(WellFormedTokens)}
    \cup UNION {{CounterLineOf([WellFormedTokens EXCEPT ![k] = v]) :
                     v \in TokenVariants(k)} : k \in CounterKeys}
    \cup {<<>>}

\* rows that are not a prefix of A followed by B, four of them of another width
OddRows ==
    { <<"A", "A", "A", "A">>,
      <<"A", "A", "A", "B", "B", "B">>,
      <<>>,
      <<"B", "B", "B", "B", "A">>,
      <<"X", "X", "X", "X", "X">> }

\* the grid lines: the default board, one row replaced, or too few lines
GridLines ==
    {create_initial_board}
    \cup {[create_initial_board EXCEPT ![i] = row] : i \in 1..BOARD_ROWS, row \in OddRows}
    \cup {SubSeq(create_initial_board, 1, n) : n \in 0..(BOARD_ROWS - 1)}

\* a well-formed state followed by one or two more lines
LongFiles ==
    {TextFile(<<CounterLineOf(WellFormedTokens)>> \o create_initial_board
              \o SubSeq(create_initial_board, 1, n)) : n \in 1..2}

\* a well-formed state whose last line has no newline
UnterminatedFile ==
    [exists |-> TRUE,
     data   |-> [TextFile(<<CounterLineOf(WellFormedTokens)>> \o create_initial_board).data
                     EXCEPT ![1 + BOARD_ROWS] = create_initial_board[BOARD_ROWS]]]

\* files with one defect in the counters line, the grid or the line count
SampleFiles ==
    {TextFile(<<c>> \o g) : c \in CounterLines, g \in GridLines}
    \cup LongFiles
    \cup {NoFile, TextFile(<<>>), UnterminatedFile}

\* the first run of the program on a state file it finds
FirstInvocation ==
    /\ outcome = "init"
    /\ Invocation

InitFiles ==
    /\ state_file \in SampleFiles
    /\ output_file = NoOutput
    /\ wins = default_wins
    /\ board = create_initial_board
    /\ row_index = 0
    /\ dice = "none"
    /\ outcome = "init"
    /\ days_seen = {0}
    /\ proc = NoProcs

NextFiles == LoadAct \/ FirstInvocation

SpecFiles == InitFiles /\ [][NextFiles]_vars

---------------------------------------------------------------------------
(* Two invocations at once.  Each is load_state, the step, save_state and the *)
(* write of the output file, with no lock.  open(path, 'w') truncates the      *)
(* file; the text written is buffered and reaches the file in one write at    *)
(* offset 0 when the with-block closes it.                                    *)

Procs == {1, 2}

RECURSIVE Bytes(_)
\* the content of a file of lines
Bytes(lines) ==
    IF lines = <<>> THEN <<>> ELSE lines[1] \o Bytes(Tail(lines))

RECURSIVE SplitLines(_)
\* readlines(): each line up to and with its newline, the last one maybe without
SplitLines(bytes) ==
    LET i == FirstIndex(bytes, "\n", 1)
    IN  IF bytes = <<>> THEN <<>>
        ELSE IF i = 0 THEN <<bytes>>
        ELSE <<SubSeq(bytes, 1, i)>> \o SplitLines(SubSeq(bytes, i + 1, Len(bytes)))

\* mutant: the file opened for appending
WriteAtStart_append(old, new) == old \o new

\* the write at offset 0 of a file that holds the lines old: the bytes of new
\* replace the first bytes, what lies beyond them stays
WriteAtStart(old, new) ==
    LET o == Bytes(old)
        n == Bytes(new)
    IN  IF Len(o) <= Len(n) THEN new
        ELSE SplitLines(n \o SubSeq(o, Len(n) + 1, Len(o)))

\* the same write on the output file, whose text nothing parses: the new text,
\* or the new text with the text it was laid over
LaidOver(old, new) ==
    IF old = <<>> THEN new ELSE <<[text |-> new, over |-> old]>>

Truncated == [exists |-> TRUE, data |-> <<>>]

NoResult ==
    [raised |-> FALSE, kind |-> "none", coin |-> "none", wins |-> EmptyDict,
     board |-> <<>>, ascii_output |-> <<>>]

\* an invocation before its first statement
StartProc ==
    [pc |-> "start", st |-> default_state, row_index |-> 0, res |-> NoResult,
     stale |-> FALSE, rank |-> 0, loads |-> 0, saves |-> 0, outs |-> 0]

\* the invocations that have opened the state file for writing
SaveBegun == {q \in Procs : proc[q].pc \in {"opened", "saved", "out_opened", "done"}}

\* the invocations whose write has reached the state file
SaveDone == {q \in Procs : proc[q].pc \in {"saved", "out_opened", "done"}}

\* the variables of the invocations that run one at a time
sequential == <<wins, board, row_index, dice, outcome, days_seen>>

\* wins, board = load_state()
LoadP(p) ==
    /\ proc[p].pc = "start"
    /\ proc' = [proc EXCEPT ![p].pc = "loaded",
                            ![p].st = load_state(state_file),
                            ![p].stale = (SaveBegun # {}),
                            ![p].loads = @ + 1]
    /\ UNCHANGED <<state_file, output_file, sequential>>

\* the step on the loaded state, up to the open() of save_state; a KeyError
\* ends the invocation before it
OpenStateP(p) ==
    /\ proc[p].pc = "loaded"
    /\ \E r \in Rows, coin \in Coins :
         \E res \in {simulate_battle(proc[p].st, r, coin)} :
           /\ proc' = [proc EXCEPT ![p].pc = IF res.raised THEN "raised" ELSE "opened",
                                   ![p].row_index = r,
                                   ![p].res = res]
           /\ state_file' = IF res.raised THEN state_file ELSE Truncated
    /\ UNCHANGED <<output_file, sequential>>

\* the lines of save_state reach the state file as the with-block closes it
WriteStateP(p) ==
    /\ proc[p].pc = "opened"
    /\ state_file' =
           [exists |-> TRUE,
            data   |-> WriteAtStart(state_file.data,
                                    save_state(proc[p].res.wins, proc[p].res.board).data)]
    /\ proc' = [proc EXCEPT ![p].pc = "saved",
                            ![p].rank = Cardinality(SaveDone) + 1,
                            ![p].saves = @ + 1]
    /\ UNCHANGED <<output_file, sequential>>

\* open(OUTPUT_FILE, 'w')
OpenOutputP(p) ==
    /\ proc[p].pc = "saved"
    /\ output_file' = Truncated
    /\ proc' = [proc EXCEPT ![p].pc = "out_opened"]
    /\ UNCHANGED <<state_file, sequential>>

\* f.write(ascii_output) reaches the output file as the with-block closes it
WriteOutputP(p) ==
    /\ proc[p].pc = "out_opened"
    /\ output_file' = [exists |-> TRUE,
                       data   |-> LaidOver(output_file.data, proc[p].res.ascii_output)]
    /\ proc' = [proc EXCEPT ![p].pc = "done", ![p].outs = @ + 1]
    /\ UNCHANGED <<state_file, sequential>>

RECURSIVE Replay(_, _)
\* the state after the invocations that chose the given rows and coins, in turn
Replay(st, steps) ==
    IF steps = <<>> THEN st
    ELSE LET res == simulate_battle(st, steps[1][1], steps[1][2])
         IN  Replay([wins |-> res.wins, board |-> res.board], Tail(steps))

\* two +1 moves on row 0: the row is AAAAA after them
TwoMoves == << <<0, "lt_half">>, <<0, "lt_half">> >>

\* seven more moves, on row 1, that bring the day counter to 9
NineMoves ==
    TwoMoves \o << <<1, "lt_half">>, <<1, "ge_half">>, <<1, "lt_half">>, <<1, "ge_half">>,
                   <<1, "lt_half">>, <<1, "ge_half">>, <<1, "lt_half">> >>

SavedAfter(steps) ==
    LET st == Replay(default_state, steps) IN save_state(st.wins, st.board)

\* state files the two invocations may find: none, and two that earlier
\* invocations leave behind
ConcFiles == {NoFile, SavedAfter(TwoMoves), SavedAfter(NineMoves)}

InitConc ==
    /\ state_file \in ConcFiles
    /\ output_file = NoOutput
    /\ wins = default_wins
    /\ board = create_initial_board
    /\ row_index = 0
    /\ dice = "none"
    /\ outcome = "init"
    /\ days_seen = {0}
    /\ proc = [p \in Procs |-> StartProc]

NextConc ==
    \E p \in Procs :
        LoadP(p) \/ OpenStateP(p) \/ WriteStateP(p) \/ OpenOutputP(p) \/ WriteOutputP(p)

SpecConc == InitConc /\ [][NextConc]_vars

---------------------------------------------------------------------------
(* Properties *)

\* the state an invocation would load now: what the last save left on disk
Saved == load_state(state_file)

SavedRow(r) == Saved.board[r + 1]

\* the row is A up to index bnd (0-based) and B after it
HasBoundary(row, bnd) ==
    /\ Len(row) = BOARD_COLS
    /\ \A i \in 0..(BOARD_COLS - 1) : row[i + 1] = (IF i <= bnd THEN "A" ELSE "B")

PrefixForm(row) == \E bnd \in -1..(BOARD_COLS - 1) : HasBoundary(row, bnd)

\* the last operation was a battle step that saved
Stepped == outcome \in {"win", "move"}

\* C1: from the default state, after any sequence of battle steps, every row of
\* the saved grid is a contiguous prefix of A-cells followed by B-cells only, that
\* is, it is described by one boundary index in -1 .. BOARD_COLS - 1.
C1_RowsArePrefixForm ==
    \A st \in {Saved} :
        /\ Len(st.board) = BOARD_ROWS
        /\ \A r \in Rows : PrefixForm(st.board[r + 1])

\* C1 witness: after a move, one row is all A and another has a single A-cell.
C1_Witness ==
    /\ outcome = "move"
    /\ \E st \in {Saved} :
           /\ \E r \in Rows : HasBoundary(st.board[r + 1], BOARD_COLS - 1)
           /\ \E r \in Rows : HasBoundary(st.board[r + 1], 0)

\* C2: save_state followed by load_state returns the counters and the grid that
\* were saved, for non-negative counters and grids of cells in {A, B}.
C2_RoundTrip ==
    [][outcome' = "reloaded" => (wins' = wins /\ board' = board)]_vars

\* C2 witness: a reload of a saved state with a counter at the bound, another at
\* 0, and a grid that is not the default grid.
C2_Witness ==
    /\ outcome = "reloaded"
    /\ wins[KEY_A] = MaxCount
    /\ wins[KEY_RECORD] = 0
    /\ board # create_initial_board

---------------------------------------------------------------------------
(* Structure of a state file, read off its text *)

FileLines(f) == ReadLines(f.data)

WrongLineCount(f) == Len(FileLines(f)) # 1 + BOARD_ROWS

\* some grid row (lines 2 .. 1 + BOARD_ROWS) is not BOARD_COLS wide
WrongRowWidth(f) ==
    \E i \in 2..(1 + BOARD_ROWS) :
        i <= Len(FileLines(f)) /\ Len(FileLines(f)[i]) # BOARD_COLS

\* a token is <key>:<int>
TokenParses(tok) ==
    /\ Len(SplitOn(tok, ":")) = 2
    /\ StrToInt(SplitOn(tok, ":")[2]).ok

\* the tokens of the counters line after the first word
CounterTokens(f) ==
    IF FileLines(f) = <<>> THEN <<>>
    ELSE LET parts == SplitWhitespace(FileLines(f)[1])
         IN  SubSeq(parts, 2, Len(parts))

UnparsableToken(f) ==
    \E i \in 1..Len(CounterTokens(f)) : ~TokenParses(CounterTokens(f)[i])

StructuralMismatch(f) ==
    f.exists /\ (WrongLineCount(f) \/ WrongRowWidth(f) \/ UnparsableToken(f))

\* the key has a token on the counters line
HasToken(f, k) ==
    \E i \in 1..Len(CounterTokens(f)) : SplitOn(CounterTokens(f)[i], ":")[1] = k

\* the file is one counters line with the four counters and BOARD_ROWS grid rows
WellFormedFile(f) ==
    /\ f.exists
    /\ ~StructuralMismatch(f)
    /\ \A k \in CounterKeys : HasToken(f, k)

\* C3: load_state returns the default state on any structural mismatch of the
\* state file: a line count other than 1 + BOARD_ROWS, a grid row that is not
\* BOARD_COLS wide, or a counter token that does not parse.
C3_MismatchLoadsDefault ==
    (outcome = "loaded" /\ StructuralMismatch(state_file))
        => (wins = default_wins /\ board = create_initial_board)

\* C4: a battle step never fails on a state file, whatever its content: it
\* returns without raising and leaves a well-formed state file.
C4_InvocationNeverRaises ==
    (outcome # "init" /\ outcome # "loaded")
        => (outcome # "raised" /\ WellFormedFile(state_file))

\* a BOARD_ROWS x BOARD_COLS matrix of cells in {A, B}
IsGrid(b) ==
    /\ Len(b) = BOARD_ROWS
    /\ \A i \in 1..Len(b) :
           /\ Len(b[i]) = BOARD_COLS
           /\ \A j \in 1..Len(b[i]) : b[i][j] \in {"A", "B"}

\* C13: every grid that load_state returns, for any state-file content, is a
\* BOARD_ROWS x BOARD_COLS matrix in which each cell is A or B.
C13_LoadedGridIsAB ==
    outcome = "loaded" => IsGrid(board)

---------------------------------------------------------------------------
(* Properties of the battle step *)

\* the output file holds a win message
WinDeclared(out) == out.exists /\ out.data # <<>> /\ out.data[1] = "Faction "

\* the faction named by the win message
DeclaredWinner(out) == <<out.data[2]>>

\* C5: after every invocation that declares a win, the saved grid is the default
\* grid and the saved day counter is 0.
C5_WinResetsGridAndDays ==
    (Stepped /\ WinDeclared(output_file))
        => \A st \in {Saved} :
               st.board = create_initial_board /\ st.wins[KEY_DAYS] = 0

\* C5 witness: a win of B declared on row 4 after two moves.
C5_Witness ==
    /\ Stepped
    /\ WinDeclared(output_file)
    /\ DeclaredWinner(output_file) = KEY_B
    /\ row_index = 3
    /\ Saved.wins[KEY_RECORD] = 2

\* C6: in every state saved by a battle step, DAYS <= RECORD.
C6_DaysAtMostRecord ==
    Stepped => \A st \in {Saved} : st.wins[KEY_DAYS] <= st.wins[KEY_RECORD]

\* C6 witness: a move that raised the record to the new day count.
C6_Witness ==
    /\ outcome = "move"
    /\ Saved.wins[KEY_DAYS] = MaxDays
    /\ Saved.wins[KEY_RECORD] = MaxDays

ROW_AAABB == <<"A", "A", "A", "B", "B">>

ROW_AAAAB == <<"A", "A", "A", "A", "B">>

ROW_AAAAA == <<"A", "A", "A", "A", "A">>

\* one invocation on row 0 of the worked example, from the state before it
ExampleStep ==
    \A pre \in {load_state(state_file)}, post \in {load_state(state_file')} :
        row_index' = 0 =>
          /\ (pre.board[1] = ROW_AAABB /\ dice' = "lt_half")
                 => (post.board[1] = ROW_AAAAB /\ ~WinDeclared(output_file'))
          /\ (pre.board[1] = ROW_AAAAB /\ dice' = "lt_half")
                 => /\ post.board[1] = ROW_AAAAA
                    /\ ~WinDeclared(output_file')
                    /\ post.wins[KEY_A] = pre.wins[KEY_A]
          /\ pre.board[1] = ROW_AAAAA
                 => /\ WinDeclared(output_file')
                    /\ DeclaredWinner(output_file') = KEY_A
                    /\ post.wins[KEY_A] = pre.wins[KEY_A] + 1

\* C8: row 0 of the default grid is AAABB with boundary 2; a +1 move on it gives
\* AAAAB; the next +1 move on it gives AAAAA, and the invocation on that row after
\* it declares a win of A on the row and increments A's tally.
C8_WorkedExample ==
    /\ create_initial_board[1] = ROW_AAABB
    /\ Boundary(create_initial_board[1]) = 2
    /\ Saved.board[1] = ROW_AAABB
    /\ [][ExampleStep]_vars

\* C8 witness: the first win, declared for A on row 0 after exactly two moves.
C8_Witness ==
    /\ WinDeclared(output_file)
    /\ DeclaredWinner(output_file) = KEY_A
    /\ row_index = 0
    /\ Saved.wins[KEY_A] = 1
    /\ Saved.wins[KEY_B] = 0
    /\ Saved.wins[KEY_RECORD] = 2

\* what a win on a row of the given boundary does to the counters
WinEffect(pre, post, out, boundary) ==
    LET winner == IF boundary = BOARD_COLS - 1 THEN KEY_A ELSE KEY_B
        other  == IF boundary = BOARD_COLS - 1 THEN KEY_B ELSE KEY_A
    IN  /\ DeclaredWinner(out) = winner
        /\ post.wins[winner] = pre.wins[winner] + 1
        /\ post.wins[other] = pre.wins[other]
        /\ post.wins[KEY_RECORD] = pre.wins[KEY_RECORD]

WinStep ==
    \A pre \in {load_state(state_file)}, post \in {load_state(state_file')} :
    \A boundary \in {Boundary(pre.board[row_index' + 1])} :
        /\ WinDeclared(output_file') <=> (boundary = BOARD_COLS - 1 \/ boundary = -1)
        /\ WinDeclared(output_file') => WinEffect(pre, post, output_file', boundary)

\* C9: a battle step declares a win exactly when the boundary of the chosen row is
\* BOARD_COLS - 1 (A wins) or -1 (B wins); on a win the winner's tally grows by 1
\* and the other tally and the record are unchanged.
C9_WinExactlyAtEdge == [][WinStep]_vars

\* C9 witness: a win of B declared while the record stands at 3.
C9_Witness ==
    /\ WinDeclared(output_file)
    /\ DeclaredWinner(output_file) = KEY_B
    /\ Saved.wins[KEY_B] = 1
    /\ Saved.wins[KEY_A] = 0
    /\ Saved.wins[KEY_RECORD] = 3

MoveStep ==
    \A pre \in {load_state(state_file)}, post \in {load_state(state_file')} :
    \A r \in {row_index'}, boundary \in {Boundary(pre.board[row_index' + 1])} :
    \A moved \in {IF dice' = "lt_half" THEN boundary + 1 ELSE boundary - 1} :
        ~WinDeclared(output_file') =>
          /\ dice' \in Coins
          /\ post.wins[KEY_DAYS] = pre.wins[KEY_DAYS] + 1
          /\ moved \in -1..(BOARD_COLS - 1)
          /\ HasBoundary(post.board[r + 1], moved)
          /\ \A q \in Rows \ {r} : post.board[q + 1] = pre.board[q + 1]
          /\ post.wins[KEY_A] = pre.wins[KEY_A]
          /\ post.wins[KEY_B] = pre.wins[KEY_B]

\* C10: on a battle step that declares no win the day counter grows by 1, the
\* boundary of the chosen row moves by exactly one position, +1 or -1 by the coin
\* (the clamp to -1 .. BOARD_COLS - 1 never changes it), the row is rewritten as A
\* up to the new boundary and B after it, and the other rows and both tallies are
\* unchanged.
C10_MoveEffect == [][MoveStep]_vars

\* C10 witness: a -1 move that took the chosen row to boundary -1.
C10_Witness ==
    /\ outcome = "move"
    /\ dice = "ge_half"
    /\ HasBoundary(SavedRow(row_index), -1)
    /\ Saved.wins[KEY_DAYS] = 2

ROW_AABBB == <<"A", "A", "B", "B", "B">>

\* rows 0-2 are AAABB and rows 3-5 are AABBB
IsDefaultGrid(b) ==
    /\ Len(b) = 6
    /\ \A r \in 0..2 : b[r + 1] = ROW_AAABB
    /\ \A r \in 3..5 : b[r + 1] = ROW_AABBB

\* C14: when the state file is absent, load_state returns the default state: the
\* four counters 0 and a grid whose rows 0-2 are AAABB and rows 3-5 are AABBB; the
\* grid saved by an invocation that declares a win is the same grid.
C14_DefaultWhenAbsent ==
    /\ (outcome = "loaded" /\ ~state_file.exists) =>
           /\ DOMAIN wins = CounterKeys
           /\ \A k \in CounterKeys : wins[k] = 0
           /\ IsDefaultGrid(board)
    /\ outcome = "win" => IsDefaultGrid(Saved.board)

\* C14 witness: load_state has returned with no state file on disk.
C14_Witness ==
    /\ outcome = "loaded"
    /\ ~state_file.exists
    /\ board[1] = ROW_AAABB
    /\ board[BOARD_ROWS] = ROW_AABBB
    /\ wins[KEY_RECORD] = 0

\* the largest element of a non-empty set of numbers
MaxOf(S) == CHOOSE m \in S : \A x \in S : x <= m

\* RECORD is the largest value the day counter has had in a saved state
RecordIsMaxDay ==
    \A st \in {Saved} : st.wins[KEY_RECORD] = MaxOf(days_seen)

RecordNeverDrops ==
    \A pre \in {load_state(state_file)}, post \in {load_state(state_file')} :
        post.wins[KEY_RECORD] >= pre.wins[KEY_RECORD]

\* C12: from the default state, after any sequence of invocations RECORD equals
\* the maximum value the day counter has taken in any saved state so far, across
\* battles and wins, and RECORD never decreases from one invocation to the next.
C12_RecordIsMaxOfDays == []RecordIsMaxDay /\ [][RecordNeverDrops]_vars

\* C12 witness: the first move of a second battle: the day counter is back at 1
\* and the record still holds the 2 of the battle that a win ended.
C12_Witness ==
    /\ outcome = "move"
    /\ days_seen = {0, 1, 2}
    /\ \E st \in {Saved} :
           /\ st.wins[KEY_DAYS] = 1
           /\ st.wins[KEY_RECORD] = 2
           /\ st.wins[KEY_A] + st.wins[KEY_B] = 1

CountersNonNegative ==
    \A st \in {Saved} : \A k \in CounterKeys : st.wins[k] >= 0

TalliesNeverDrop ==
    \A pre \in {load_state(state_file)}, post \in {load_state(state_file')} :
        /\ post.wins[KEY_A] >= pre.wins[KEY_A]
        /\ post.wins[KEY_B] >= pre.wins[KEY_B]

\* C15: in every state reachable from the default state by invocations, the four
\* counters A, B, DAYS and RECORD are non-negative, and no invocation lowers the
\* tally of A or of B.
C15_CountersNonNegative == []CountersNonNegative /\ [][TalliesNeverDrop]_vars

\* C15 witness: a battle after the first win: a tally at 1 is kept by a move.
C15_Witness ==
    /\ outcome = "move"
    /\ \E st \in {Saved} :
           /\ st.wins[KEY_B] = 1
           /\ st.wins[KEY_A] = 0
           /\ st.wins[KEY_DAYS] = 1
           /\ st.wins[KEY_RECORD] = 3

\* one invocation: a win or a move, never both
WinOrMove ==
    \A pre \in {load_state(state_file)}, post \in {load_state(state_file')} :
    \A r \in {row_index'} :
    \A on_edge \in {is_row_uniform(pre.board[r + 1])} :
        \* the win is declared exactly for a row that was uniform before the step
        /\ WinDeclared(output_file') <=> on_edge
        \* a win moves no row and counts no day
        /\ on_edge =>
               /\ outcome' = "win"
               /\ post.board = create_initial_board
               /\ post.wins[KEY_DAYS] = 0
               /\ post.wins[KEY_A] + post.wins[KEY_B]
                      = pre.wins[KEY_A] + pre.wins[KEY_B] + 1
        \* a move counts a day and no win, also when it makes the row uniform or
        \* when another row is uniform already
        /\ ~on_edge =>
               /\ outcome' = "move"
               /\ post.wins[KEY_DAYS] = pre.wins[KEY_DAYS] + 1
               /\ post.wins[KEY_A] = pre.wins[KEY_A]
               /\ post.wins[KEY_B] = pre.wins[KEY_B]
               /\ post.board[r + 1] # pre.board[r + 1]
               /\ \A q \in Rows \ {r} : post.board[q + 1] = pre.board[q + 1]

\* C16: an invocation either declares a win or makes a move, never both: a move
\* that makes a row uniform leaves the tallies unchanged and saves a grid with a
\* uniform row; the win is counted only by a later invocation that chooses a
\* uniform row, and invocations that choose other rows move and count days.
C16_WinOrMoveNeverBoth == [][WinOrMove]_vars

\* C16 witness: row 0 was made uniform by two moves and no win has been counted;
\* the third invocation chose another row and moved it, counting day 3.
C16_Witness ==
    /\ outcome = "move"
    /\ row_index # 0
    /\ \E st \in {Saved} :
           /\ is_row_uniform(st.board[1])
           /\ ~is_row_uniform(st.board[row_index + 1])
           /\ st.wins[KEY_DAYS] = 3
           /\ st.wins[KEY_A] + st.wins[KEY_B] = 0

---------------------------------------------------------------------------
(* Properties of two invocations at once *)

\* both invocations have written the state file, and each loaded it before
\* either opened it for writing
BothLoadedFirst ==
    /\ SaveDone = Procs
    /\ \A p \in Procs : ~proc[p].stale

\* the state an invocation saved, and the lines it wrote for it
StateOf(p) == [wins |-> proc[p].res.wins, board |-> proc[p].res.board]

Written(p) == save_state(proc[p].res.wins, proc[p].res.board)

\* the final state holds one step from the state both loaded, the step of the
\* invocation late: nothing of what the invocation early did is in it
UpdateLost(fin, early, late) ==
    \A st \in {proc[early].st}, r \in {proc[late].row_index} :
    \E res \in {simulate_battle(st, r, proc[late].res.coin)} :
        /\ proc[late].st = st
        /\ fin.wins = res.wins /\ fin.board = res.board
        /\ fin.wins[KEY_DAYS] <= st.wins[KEY_DAYS] + 1
        /\ fin.wins[KEY_A] + fin.wins[KEY_B] <= st.wins[KEY_A] + st.wins[KEY_B] + 1
        /\ res.kind = "move" =>
               /\ fin.wins[KEY_A] = st.wins[KEY_A] /\ fin.wins[KEY_B] = st.wins[KEY_B]
               /\ \A q \in Rows \ {r} : fin.board[q + 1] = st.board[q + 1]
        /\ res.kind = "win" => fin.wins[KEY_RECORD] = st.wins[KEY_RECORD]

\* C11 as stated: when both invocations load before either saves, the final
\* state file is exactly what the later saver wrote from its own stale load, and
\* the update of the earlier saver is lost.
C11_LastWriterWins ==
    BothLoadedFirst =>
        \A early \in {p \in Procs : proc[p].rank = 1},
           late \in {p \in Procs : proc[p].rank = 2} :
            /\ state_file = Written(late)
            /\ UpdateLost(StateOf(late), early, late)

\* C11 amended: when both invocations load before either saves, the final state
\* file starts with exactly the lines that the saver whose write came last wrote
\* from its own stale load; beyond them lies at most the end of a longer write of
\* the other saver, begun before and never truncated; the state a load returns
\* from the file is the state of the last writer, and the update of the earlier
\* saver is lost.
C11_LastWriterPrevails ==
    BothLoadedFirst =>
        \A early \in {p \in Procs : proc[p].rank = 1},
           late \in {p \in Procs : proc[p].rank = 2} :
        \A w1 \in {Bytes(Written(early).data)}, w2 \in {Bytes(Written(late).data)} :
            /\ SubSeq(state_file.data, 1, 1 + BOARD_ROWS) = Written(late).data
            /\ Bytes(state_file.data) \in {w2, w2 \o SubSeq(w1, Len(w2) + 1, Len(w1))}
            /\ load_state(state_file) = StateOf(late)
            /\ UpdateLost(load_state(state_file), early, late)

\* C11 witness: the two saves overlapped; the earlier write of a move, two bytes
\* longer than the later write of a win, left its end in the file.
C11_Witness ==
    /\ BothLoadedFirst
    /\ Len(state_file.data) > 1 + BOARD_ROWS
    /\ \E early, late \in Procs :
           /\ proc[early].rank = 1 /\ proc[early].res.kind = "move"
           /\ proc[late].rank = 2 /\ proc[late].res.kind = "win"
           /\ load_state(state_file).wins[KEY_A] = 1

\* the text ends with the given text
EndsWith(text, end) ==
    /\ Len(text) >= Len(end)
    /\ SubSeq(text, Len(text) - Len(end) + 1, Len(text)) = end

\* how often an invocation has loaded, saved and written the output, by where
\* it stands
DoneOnce(p) ==
    /\ proc[p].loads = (IF proc[p].pc = "start" THEN 0 ELSE 1)
    /\ proc[p].saves = (IF proc[p].pc \in {"saved", "out_opened", "done"} THEN 1 ELSE 0)
    /\ proc[p].outs = (IF proc[p].pc = "done" THEN 1 ELSE 0)
    /\ proc[p].pc \in {"opened", "saved", "out_opened", "done"}
           => proc[p].res.kind \in {"win", "move"}

\* the output of a finished invocation ends with the rendering of the state it
\* saved; so do the two files when they hold what it wrote
RendersSaved(p) ==
    proc[p].pc = "done" =>
        /\ EndsWith(proc[p].res.ascii_output,
                    generate_ascii_board(proc[p].res.board, proc[p].res.wins))
        /\ (state_file = Written(p) /\ output_file.data = proc[p].res.ascii_output)
               => \A st \in {Saved} :
                      EndsWith(output_file.data, generate_ascii_board(st.board, st.wins))

\* the output file is touched only by an invocation that has saved, and the
\* state file only by one that has loaded and not yet touched the output file
SaveThenOutput ==
    \A p \in Procs :
        proc'[p] # proc[p] =>
            /\ output_file' # output_file =>
                   proc[p].loads = 1 /\ proc[p].saves = 1 /\ proc[p].outs = 0
            /\ state_file' # state_file =>
                   proc[p].loads = 1 /\ proc[p].saves = 0 /\ proc[p].outs = 0
                       /\ proc[p].pc \in {"loaded", "opened"}

\* C17: every invocation, on the win path and on the move path, loads the state
\* once, takes one step, saves the state file exactly once and only then writes
\* the output file; the board and counters rendered last in the output text are
\* exactly the state it saved.
C17_LoadStepSaveThenOutput ==
    /\ [](\A p \in Procs : DoneOnce(p) /\ RendersSaved(p))
    /\ [][SaveThenOutput]_vars

\* C17 witness: an invocation that ran alone has declared a win: the state file
\* and the output file hold what it wrote, and the other has not started.
C17_Witness ==
    \E p, q \in Procs :
        /\ proc[p].pc = "done"
        /\ proc[q].pc = "start"
        /\ proc[p].res.kind = "win"
        /\ proc[p].loads = 1 /\ proc[p].saves = 1 /\ proc[p].outs = 1
        /\ state_file = Written(p)
        /\ output_file.data = proc[p].res.ascii_output

====
